---- MODULE Spec2Model ----
(***************************************************************************)
(* Model of codigo.py: the three tolerance computations (Caso A, B, C) and *)
(* the Streamlit button handlers that parse the text area and call them.   *)
(*                                                                         *)
(* Numbers.  The code works on Python/numpy floats.  Here a quantity that  *)
(* the code rounds to at most 4 decimals is a fixed-point integer counting *)
(* ten-thousandths (0.2 is 2000, 0.0020 is 20).  The limits of the         *)
(* calibrated range are whole units (100.0 is 100).  A value that can be   *)
(* NaN or infinite is a record [k, v] with k in {"num", "nan", "inf"}.     *)
(***************************************************************************)
EXTENDS Integers, Sequences, FiniteSets, TLC

VARIABLES
    caso,             \* st.radio: "A", "B" or "C"
    sensor_type,      \* st.selectbox mapped through sensor_options
    rango,            \* <<rango_min, rango_max>> of the two st.number_input
    clase_precision,  \* Caso B st.selectbox mapped through precision_map
    texto,            \* the text area of the selected case: a sequence of lines
    boton,            \* the st.button that started the last script run, or "none"
    st_error,         \* the st.error messages of the last script run
    excepcion,        \* the exception that ended the last script run, or "none"
    datos,            \* the list `datos` built by the last handler run
    llamada,          \* the computation function the last handler run invoked, or "none"
    df,               \* the DataFrame handed to it, as it is after the call
    resultados,       \* the report the last run rendered: <<>> or <<report>>
    call,             \* SpecCalc: one direct call of a computation function
    prev              \* SpecCalc: the call before it, when it was the same function

vars == <<caso, sensor_type, rango, clase_precision, texto, boton, st_error,
          excepcion, datos, llamada, df, resultados, call, prev>>

uiVars == <<caso, sensor_type, rango, clase_precision, texto, boton, st_error,
            excepcion, datos, llamada, df, resultados>>

-----------------------------------------------------------------------------
(* Bounds of the model *)

\* longest list of samples / pairs passed to a function in SpecCalc
MaxN == 3
\* most lines typed into the text area beyond the MinPares a Caso C run needs
MaxExtra == 1
\* most lines of the text area that are not a well-formed pair
MaxBad == 1

-----------------------------------------------------------------------------
(* Floats *)

Num(v) == [k |-> "num", v |-> v]
NaN == [k |-> "nan", v |-> 0]
Inf == [k |-> "inf", v |-> 0]

IsNum(x) == x.k = "num"

Abs(x) == IF x < 0 THEN -x ELSE x
Max2(a, b) == IF a >= b THEN a ELSE b

RECURSIVE SumSeq(_)
SumSeq(s) == IF s = <<>> THEN 0 ELSE Head(s) + SumSeq(Tail(s))

RECURSIVE MaxAbsSeq(_)
MaxAbsSeq(s) == IF Len(s) = 1 THEN Abs(Head(s))
                ELSE Max2(Abs(Head(s)), MaxAbsSeq(Tail(s)))

\* a / b for b > 0, rounded to the nearest grid point
DivNearest(a, b) == (2 * a + b) \div (2 * b)

RECURSIVE ISqrtIn(_, _, _)
ISqrtIn(n, lo, hi) ==
    IF lo >= hi THEN lo
    ELSE LET mid == (lo + hi + 1) \div 2
         IN IF mid * mid <= n THEN ISqrtIn(n, mid, hi) ELSE ISqrtIn(n, lo, mid - 1)

\* math.sqrt of n >= 0: the grid point nearest to the square root
Sqrt(n) ==
    LET r == ISqrtIn(n, 0, IF n < 46340 THEN n ELSE 46340)
    IN IF n - r * r > r THEN r + 1 ELSE r

\* round(x, ndigits) on the grid: step = 1 for ndigits = 4, step = 100 for
\* ndigits = 2; ties go to the even neighbour, as Python's round does.
Round(x, step) ==
    LET q == x \div step
        r == x % step
    IN IF 2 * r < step THEN q * step
       ELSE IF 2 * r > step THEN (q + 1) * step
       ELSE IF q % 2 = 0 THEN q * step ELSE (q + 1) * step

RoundF(x, step) == IF IsNum(x) THEN Num(Round(x.v, step)) ELSE x

RECURSIVE SumSqDev(_, _, _)
SumSqDev(s, n, total) ==
    IF s = <<>> THEN 0
    ELSE (n * Head(s) - total) * (n * Head(s) - total) + SumSqDev(Tail(s), n, total)

\* the root mean square: the deviations taken from 0 instead of the mean
np_std_sin_media(x, ddof) ==
    LET n == Len(x)
    IN IF n - ddof <= 0 THEN NaN
       ELSE Num(Sqrt(SumSqDev(x, n, 0) \div (n * n * (n - ddof))))

\* np.std(x, ddof): sqrt(sum((x - mean)^2) / (n - ddof)); 0/0 is NaN.  The
\* deviations are kept exact, as (n*x_i - sum)/n.
np_std(x, ddof) ==
    LET n == Len(x)
    IN IF n - ddof <= 0 THEN NaN
       ELSE Num(Sqrt(SumSqDev(x, n, SumSeq(x)) \div (n * n * (n - ddof))))

\* np.mean(x) of a non-empty x
np_mean(x) == DivNearest(SumSeq(x), Len(x))

\* numpy's division: a zero divisor gives inf (nan for 0/0) and a warning
NumpyDivTimes100(x, y) ==
    IF y = 0 THEN [st |-> "ok", val |-> IF IsNum(x) /\ x.v # 0 THEN Inf ELSE NaN]
    ELSE [st |-> "ok",
          val |-> IF IsNum(x)
                  THEN Num(IF y > 0 THEN DivNearest(x.v * 100, y)
                           ELSE -DivNearest(x.v * 100, -y))
                  ELSE x]

\* (x / y) * 100 on Python floats, y in whole units: a zero divisor raises
\* ZeroDivisionError whatever x is, NaN included.  Both operands are Python
\* floats at lines 36 and 107: x comes from math.sqrt or from float constants,
\* y from the limits of the range, which st.number_input returns as floats.
DivTimes100(x, y) ==
    IF y = 0 THEN [st |-> "ZeroDivisionError", val |-> NaN]
    ELSE [st |-> "ok",
          val |-> IF IsNum(x)
                  THEN Num(IF y > 0 THEN DivNearest(x.v * 100, y)
                           ELSE -DivNearest(x.v * 100, -y))
                  ELSE x]

-----------------------------------------------------------------------------
(* Outcome of a function call *)

NoReport == <<>>

Return(rep, locals) ==
    [st |-> "return", exc |-> "none", resultados |-> <<rep>>, locals |-> locals]
Raise(e) ==
    [st |-> "raise", exc |-> e, resultados |-> NoReport, locals |-> <<>>]
Pending ==
    [st |-> "pending", exc |-> "none", resultados |-> NoReport, locals |-> <<>>]

-----------------------------------------------------------------------------
(* Caso A *)

None == [some |-> FALSE, v |-> 0]
Some(v) == [some |-> TRUE, v |-> v]

calcular_tolerancia_sensor(rango_min, rango_max, tipo, tolerancia_sensor_input) ==
    IF tipo = "temperatura"
    THEN 1500 + 20 * Max2(Abs(rango_min), Abs(rango_max))
    ELSE IF tolerancia_sensor_input.some THEN tolerancia_sensor_input.v ELSE 5000

\* the display tolerance subtracted from the root sum square of the others
tolerancia_total_resta(sensor, transmisor, plc, pantalla) ==
    Sqrt(sensor * sensor + transmisor * transmisor + plc * plc) - pantalla

\* lines 42-47: combination in quadrature
tolerancia_total(sensor, transmisor, plc, pantalla) ==
    Sqrt(sensor * sensor + transmisor * transmisor + plc * plc + pantalla * pantalla)

\* line 29: math.sqrt(desviacion_estandar**2 + incertidumbre_patron**2)
incertidumbre_combinada(desviacion_estandar, incertidumbre_patron) ==
    IF IsNum(desviacion_estandar)
    THEN Num(Sqrt(desviacion_estandar.v * desviacion_estandar.v
                  + incertidumbre_patron * incertidumbre_patron))
    ELSE NaN

Times2(x) == IF IsNum(x) THEN Num(2 * x.v) ELSE x
Plus(x, c) == IF IsNum(x) THEN Num(x.v + c) ELSE x

\* a: [errores, incertidumbre_patron, rango_calibrado, tolerancia_transmisor,
\*     tolerancia_plc, tolerancia_pantalla, sensor_type, tolerancia_sensor_input]
calcular_tolerancia_metrologica(a) ==
    LET desviacion_estandar == np_std(a.errores, 1)
        combinada == incertidumbre_combinada(desviacion_estandar, a.incertidumbre_patron)
        incertidumbre_expandida == Times2(combinada)
        tolerancia_estricta == incertidumbre_expandida
        tolerancia_practica == RoundF(Plus(incertidumbre_expandida, 500), 100)
        rango_min == a.rango_calibrado[1]
        rango_max == a.rango_calibrado[2]
        span == Abs(rango_max - rango_min)
        tolerancia_porcentaje == DivTimes100(incertidumbre_expandida, span)
        tolerancia_sensor ==
            calcular_tolerancia_sensor(rango_min, rango_max, a.sensor_type,
                                       a.tolerancia_sensor_input)
        total == tolerancia_total(tolerancia_sensor, a.tolerancia_transmisor,
                                  a.tolerancia_plc, a.tolerancia_pantalla)
    IN IF tolerancia_porcentaje.st # "ok" THEN Raise(tolerancia_porcentaje.st)
       ELSE Return(
              [estricta   |-> RoundF(tolerancia_estricta, 1),
               practica   |-> tolerancia_practica,
               porcentaje |-> RoundF(tolerancia_porcentaje.val, 100),
               total      |-> Num(Round(total, 100))],
              [desviacion_estandar     |-> desviacion_estandar,
               incertidumbre_expandida |-> incertidumbre_expandida,
               tolerancia_total        |-> total])

-----------------------------------------------------------------------------
(* DataFrames: a mapping from column name to the column's values *)

\* pd.DataFrame(datos) of a list of row dicts
DataFrame(rows) ==
    [c \in (IF rows = <<>> THEN {} ELSE DOMAIN rows[1]) |->
        [i \in 1..Len(rows) |-> rows[i][c]]]

\* DataFrame.empty
df_empty(d) == DOMAIN d = {} \/ \E c \in DOMAIN d : Len(d[c]) = 0

-----------------------------------------------------------------------------
(* Caso B *)

\* SensorCalibrationAnalyzer.__init__: self.parametros_normativos
parametros_normativos ==
    [temperatura |-> [clase_precision |-> [alta |-> 1000, estandar |-> 5000, baja |-> 10000],
                      factor_base_tolerancia |-> 1500, factor_compensacion |-> 20],
     presion     |-> [clase_precision |-> [alta |-> 1000, estandar |-> 5000, baja |-> 10000],
                      factor_base_tolerancia |-> 2000, factor_compensacion |-> 25],
     caudal      |-> [clase_precision |-> [alta |-> 2000, estandar |-> 5000, baja |-> 10000],
                      factor_base_tolerancia |-> 2500, factor_compensacion |-> 30],
     velocidad   |-> [clase_precision |-> [alta |-> 1000, estandar |-> 5000, baja |-> 10000],
                      factor_base_tolerancia |-> 1800, factor_compensacion |-> 15]]

\* dict.get(key, default)
Get(d, key, default) == IF key \in DOMAIN d THEN d[key] ELSE default

\* a lookup whose default is the 'baja' percentage
precision_base_baja(params, clase) == Get(params.clase_precision, clase, 10000)

\* line 100: params['clase_precision'].get(clase_precision, 0.5)
precision_base_de(params, clase) == Get(params.clase_precision, clase, 5000)

\* the permitted percentage added to the tolerance
tolerancia_transmision_mas_precision(l) ==
    l.factor_base + l.factor_compensacion + l.precision_base

\* line 103, over the locals l in scope there
tolerancia_transmision_de(l) == l.factor_base + l.factor_compensacion

\* self: [tipo_sensor]; datos_calibracion: DataFrame with valor_medido, error
calcular_tolerancia_transmision(self, rango_calibrado, datos_calibracion, clase) ==
    IF df_empty(datos_calibracion) THEN Raise("ValueError")
    ELSE
    LET errores == datos_calibracion["error"]
        error_medio == np_mean(errores)
        error_maximo == MaxAbsSeq(errores)
        desviacion_estandar == np_std(errores, 0)
        params == Get(parametros_normativos, self.tipo_sensor,
                      parametros_normativos["temperatura"])
        rango_min == rango_calibrado[1]
        rango_max == rango_calibrado[2]
        rango_medicion == rango_max - rango_min
        precision_base == precision_base_de(params, clase)
        factor_base == params.factor_base_tolerancia
        factor_compensacion ==
            params.factor_compensacion * Max2(Abs(rango_min), Abs(rango_max))
        tolerancia_transmision ==
            tolerancia_transmision_de(
                [factor_base |-> factor_base, factor_compensacion |-> factor_compensacion,
                 precision_base |-> precision_base,
                 desviacion_estandar |-> desviacion_estandar])
        error_maximo_permitido_porcentual == precision_base
        error_maximo_permitido_unidades ==
            (error_maximo_permitido_porcentual * rango_medicion) \div 100
        porcentaje_tolerancia == DivTimes100(Num(tolerancia_transmision), rango_medicion)
        combinada == Sqrt(desviacion_estandar.v * desviacion_estandar.v)
        incertidumbre_expandida == 2 * combinada
    IN IF porcentaje_tolerancia.st # "ok" THEN Raise(porcentaje_tolerancia.st)
       ELSE Return(
              [tipo_sensor             |-> self.tipo_sensor,
               rango_calibrado         |-> rango_calibrado,
               clase_precision         |-> clase,
               error_medio             |-> Num(Round(error_medio, 1)),
               error_maximo            |-> Num(Round(error_maximo, 1)),
               permitido_porcentual    |-> Num(Round(error_maximo_permitido_porcentual, 100)),
               permitido_unidades      |-> Num(Round(error_maximo_permitido_unidades, 1)),
               desviacion_estandar     |-> RoundF(desviacion_estandar, 1),
               tolerancia_transmision  |-> Num(Round(tolerancia_transmision, 1)),
               porcentaje_tolerancia   |-> RoundF(porcentaje_tolerancia.val, 100),
               incertidumbre_combinada |-> Num(Round(combinada, 1)),
               incertidumbre_expandida |-> Num(Round(incertidumbre_expandida, 1))],
              [precision_base |-> precision_base])

-----------------------------------------------------------------------------
(* Caso C *)

SeqMinus(a, b) == [i \in 1..Len(a) |-> a[i] - b[i]]

\* line 155: df["error"] = ... sets the column in the caller's DataFrame
SetColumn(d, c, values) == [k \in DOMAIN d \cup {c} |-> IF k = c THEN values ELSE d[k]]

\* returns the outcome and the argument DataFrame as the call leaves it
calibracion_por_comparacion(d) ==
    LET d1 == SetColumn(d, "error", SeqMinus(d["valor_equipo"], d["valor_referencia"]))
        error_medio == np_mean(d1["error"])
        error_maximo == MaxAbsSeq(d1["error"])
        desviacion_estandar == np_std(d1["error"], 1)
        tolerancia_transmision == Times2(desviacion_estandar)
    IN [out |-> Return(
                  [error_medio            |-> Num(Round(error_medio, 1)),
                   error_maximo           |-> Num(Round(error_maximo, 1)),
                   desviacion_estandar    |-> RoundF(desviacion_estandar, 1),
                   tolerancia_transmision |-> RoundF(tolerancia_transmision, 1)],
                  [desviacion_estandar    |-> desviacion_estandar,
                   tolerancia_transmision |-> tolerancia_transmision]),
        df  |-> d1]

-----------------------------------------------------------------------------
(* The inputs drawn *)

SensorKinds == {"temperatura", "presion", "caudal", "velocidad"}
\* calibrated ranges: the default, a span of zero, limits of both signs
Rangos == {<<0, 100>>, <<50, 50>>, <<-50, 20>>}
\* sample errors: -0.1 and 0.2, the placeholder of the text area
ErrVals == {-1000, 2000}
\* the pattern uncertainty and the component tolerances, negative ones included:
\* st.number_input sets no min_value
IncertidumbresPatron == {-1000, 1000}
TolVals == {-2000, 0, 1000}
\* precision classes: the three keys and two strings that are no key
Clases == {"alta", "estandar", "baja", "media", "ESTANDAR"}
\* Caso C pairs: two with the same difference 0.2, one with 0.3
ParesC == {<<250000, 248000>>, <<300000, 298000>>, <<300000, 297000>>}

SeqsUpTo(S, lo, hi) == UNION {[1..n -> S] : n \in lo..hi}

FilaB(e) == [valor_medido |-> 250000 + e, error |-> e]
FilaC(p) == [valor_equipo |-> p[1], valor_referencia |-> p[2]]

ArgsA ==
    [errores : SeqsUpTo(ErrVals, 1, MaxN),
     incertidumbre_patron : IncertidumbresPatron,
     rango_calibrado : Rangos,
     tolerancia_transmisor : TolVals,
     tolerancia_plc : TolVals,
     tolerancia_pantalla : TolVals,
     sensor_type : {"temperatura", "presion"},
     tolerancia_sensor_input : {None} \cup {Some(v) : v \in TolVals}]

DatosB == {DataFrame([i \in 1..Len(e) |-> FilaB(e[i])]) : e \in SeqsUpTo(ErrVals, 0, MaxN)}

ArgsB ==
    [self : [tipo_sensor : SensorKinds \cup {"otro"}],
     rango_calibrado : Rangos,
     datos_calibracion : DatosB,
     clase_precision : Clases]

ArgsC ==
    [df : {DataFrame([i \in 1..Len(p) |-> FilaC(p[i])]) : p \in SeqsUpTo(ParesC, 1, MaxN)}]

-----------------------------------------------------------------------------
(* SpecCalc: the three functions called directly *)

NoCall == [fn |-> "none", args |-> <<>>, out |-> Pending, args_despues |-> <<>>]
NewCall(fn, args) == [fn |-> fn, args |-> args, out |-> Pending, args_despues |-> args]

RunA(args) ==
    [fn |-> "A", args |-> args, out |-> calcular_tolerancia_metrologica(args),
     args_despues |-> args]

RunB(args) ==
    [fn |-> "B", args |-> args,
     out |-> calcular_tolerancia_transmision(args.self, args.rango_calibrado,
                                             args.datos_calibracion, args.clase_precision),
     args_despues |-> args]

RunC(args) ==
    LET r == calibracion_por_comparacion(args.df)
    IN [fn |-> "C", args |-> args, out |-> r.out, args_despues |-> [df |-> r.df]]

UIInit ==
    /\ caso = "A"
    /\ sensor_type = "temperatura"
    /\ rango = <<0, 100>>
    /\ clase_precision = "alta"
    /\ texto = <<>>
    /\ boton = "none"
    /\ st_error = <<>>
    /\ excepcion = "none"
    /\ datos = <<>>
    /\ llamada = "none"
    /\ df = DataFrame(<<>>)
    /\ resultados = NoReport

InitCalc ==
    /\ UIInit
    /\ prev = NoCall
    /\ \/ \E a \in ArgsA : call = NewCall("A", a)
       \/ \E a \in ArgsB : call = NewCall("B", a)
       \/ \E a \in ArgsC : call = NewCall("C", a)

InvokeA ==
    /\ call.fn = "A" /\ call.out.st = "pending"
    /\ call' = RunA(call.args)
    /\ UNCHANGED <<prev, uiVars>>

InvokeB ==
    /\ call.fn = "B" /\ call.out.st = "pending"
    /\ call' = RunB(call.args)
    /\ UNCHANGED <<prev, uiVars>>

InvokeC ==
    /\ call.fn = "C" /\ call.out.st = "pending"
    /\ call' = RunC(call.args)
    /\ UNCHANGED <<prev, uiVars>>

ToleranceInputs ==
    {"tolerancia_transmisor", "tolerancia_plc", "tolerancia_pantalla"}

\* a second call of Caso A with one of the four component tolerances raised;
\* prev keeps the first call, so that the two results can be compared
InvokeAgainA ==
    /\ call.fn = "A" /\ call.out.st = "return" /\ prev = NoCall
    /\ \/ \E f \in ToleranceInputs : \E v \in TolVals :
            /\ v > call.args[f]
            /\ call' = RunA([call.args EXCEPT ![f] = v])
       \/ \E v \in TolVals :
            /\ call.args.tolerancia_sensor_input.some
            /\ v > call.args.tolerancia_sensor_input.v
            /\ call' = RunA([call.args EXCEPT !.tolerancia_sensor_input = Some(v)])
    /\ prev' = call
    /\ UNCHANGED uiVars

\* a second call of Caso B on the same kind and range, with other samples and class
InvokeAgainB ==
    /\ call.fn = "B" /\ call.out.st # "pending" /\ prev = NoCall
    /\ \E d \in DatosB : \E c \in Clases :
            call' = RunB([call.args EXCEPT !.datos_calibracion = d, !.clase_precision = c])
    /\ prev' = call
    /\ UNCHANGED uiVars

NextCalc == InvokeA \/ InvokeB \/ InvokeC \/ InvokeAgainA \/ InvokeAgainB

SpecCalc == InitCalc /\ [][NextCalc]_vars

-----------------------------------------------------------------------------
(* Spec: the Streamlit script.  Every widget interaction reruns the script  *)
(* from the top; only the run started by a button runs that button's        *)
(* handler, so any other run shows no message and no report.                *)

\* line 310: len(datos) < 10
MinPares == 10

\* the defaults of the Caso A number inputs, which the model leaves untouched
incertidumbre_patron_ui == 1000
tolerancia_transmisor_ui == 2000
tolerancia_plc_ui == 1000
tolerancia_pantalla_ui == 500
tolerancia_sensor_ui == 5000

\* A line of the text area, after strip() and split(','): the sequence of its
\* fields, <<>> for a line that is blank.  A field says whether float() takes it.
Campo(v) == [num |-> TRUE, val |-> v]
NoNumerico == [num |-> FALSE, val |-> 0]

LineaPar == <<Campo(250000), Campo(2000)>>
LineasMalas ==
    { <<>>,                                       \* blank
      <<Campo(250000)>>,                          \* one field
      <<Campo(250000), Campo(2000), Campo(0)>>,   \* three fields
      <<NoNumerico, Campo(2000)>> }               \* two fields, one not a number

Cardinal(seq, S) == Cardinality({i \in 1..Len(seq) : seq[i] \in S})

MsgVacio == "Por favor, ingrese los datos."
MsgFormato == "Cada linea debe contener dos valores separados por coma."
MsgSinDatos == "No se procesaron datos validos."
MsgPocosPares == "Debe ingresar al menos 10 pares de datos."

\* `not text.strip()`
EsVacio(t) == \A i \in 1..Len(t) : t[i] = <<>>

\* The for loop over text.splitlines() shared by the three handlers; c1, c2
\* are the keys of the row dicts.
RECURSIVE ParseLoop(_, _, _, _)
ParseLoop(lineas, acc, c1, c2) ==
    IF lineas = <<>> THEN [datos |-> acc, st_error |-> <<>>, exc |-> "none"]
    ELSE LET linea == Head(lineas)
         IN IF linea = <<>> THEN ParseLoop(Tail(lineas), acc, c1, c2)
            ELSE IF Len(linea) # 2
                 THEN [datos |-> acc, st_error |-> <<MsgFormato>>, exc |-> "none"]
            ELSE IF ~linea[1].num \/ ~linea[2].num
                 THEN [datos |-> acc, st_error |-> <<>>, exc |-> "ValueError"]
            ELSE ParseLoop(Tail(lineas),
                           Append(acc, (c1 :> linea[1].val) @@ (c2 :> linea[2].val)),
                           c1, c2)

Rerun ==
    /\ boton' = "none"
    /\ st_error' = <<>>
    /\ excepcion' = "none"
    /\ datos' = <<>>
    /\ llamada' = "none"
    /\ df' = DataFrame(<<>>)
    /\ resultados' = NoReport

SeleccionarCaso ==
    /\ \E c \in {"A", "B", "C"} : c # caso /\ caso' = c
    /\ Rerun
    /\ UNCHANGED <<sensor_type, rango, clase_precision, texto, call, prev>>

SeleccionarSensor ==
    /\ \E k \in SensorKinds : k # sensor_type /\ sensor_type' = k
    /\ Rerun
    /\ UNCHANGED <<caso, rango, clase_precision, texto, call, prev>>

IngresarRango ==
    /\ \E r \in Rangos : r # rango /\ rango' = r
    /\ Rerun
    /\ UNCHANGED <<caso, sensor_type, clase_precision, texto, call, prev>>

SeleccionarClase ==
    /\ caso = "B"
    /\ \E c \in {"alta", "estandar", "baja"} : c # clase_precision /\ clase_precision' = c
    /\ Rerun
    /\ UNCHANGED <<caso, sensor_type, rango, texto, call, prev>>

EscribirLinea ==
    /\ Len(texto) < MinPares + MaxExtra
    /\ \E l \in {LineaPar} \cup LineasMalas :
          /\ l \in LineasMalas => Cardinal(texto, LineasMalas) < MaxBad
          /\ texto' = Append(texto, l)
    /\ Rerun
    /\ UNCHANGED <<caso, sensor_type, rango, clase_precision, call, prev>>

\* What a handler run leaves on the screen and in the script's variables
Salida(msgs, exc, d, fn, frame, rep) ==
    /\ boton' = caso
    /\ st_error' = msgs
    /\ excepcion' = exc
    /\ datos' = d
    /\ llamada' = fn
    /\ df' = frame
    /\ resultados' = rep
    /\ UNCHANGED <<caso, sensor_type, rango, clase_precision, texto, call, prev>>

\* lines 215-246
BotonCasoA ==
    /\ caso = "A"
    /\ IF EsVacio(texto)
       THEN Salida(<<MsgVacio>>, "none", <<>>, "none", DataFrame(<<>>), NoReport)
       ELSE LET p == ParseLoop(texto, <<>>, "valor_medido", "error")
            IN IF p.exc # "none"
               THEN Salida(p.st_error, p.exc, p.datos, "none", DataFrame(<<>>), NoReport)
               ELSE IF p.datos = <<>>
               THEN Salida(Append(p.st_error, MsgSinDatos), "none", p.datos, "none",
                           DataFrame(<<>>), NoReport)
               ELSE LET df_calibracion == DataFrame(p.datos)
                        out == calcular_tolerancia_metrologica(
                                 [errores |-> df_calibracion["error"],
                                  incertidumbre_patron |-> incertidumbre_patron_ui,
                                  rango_calibrado |-> rango,
                                  tolerancia_transmisor |-> tolerancia_transmisor_ui,
                                  tolerancia_plc |-> tolerancia_plc_ui,
                                  tolerancia_pantalla |-> tolerancia_pantalla_ui,
                                  sensor_type |-> sensor_type,
                                  tolerancia_sensor_input |->
                                      IF sensor_type # "temperatura"
                                      THEN Some(tolerancia_sensor_ui) ELSE None])
                    IN Salida(p.st_error, out.exc, p.datos, "A", df_calibracion,
                              out.resultados)

\* lines 260-285
BotonCasoB ==
    /\ caso = "B"
    /\ IF EsVacio(texto)
       THEN Salida(<<MsgVacio>>, "none", <<>>, "none", DataFrame(<<>>), NoReport)
       ELSE LET p == ParseLoop(texto, <<>>, "valor_medido", "error")
            IN IF p.exc # "none"
               THEN Salida(p.st_error, p.exc, p.datos, "none", DataFrame(<<>>), NoReport)
               ELSE IF p.datos = <<>>
               THEN Salida(Append(p.st_error, MsgSinDatos), "none", p.datos, "none",
                           DataFrame(<<>>), NoReport)
               ELSE LET df_calibracion == DataFrame(p.datos)
                        out == calcular_tolerancia_transmision(
                                 [tipo_sensor |-> sensor_type], rango, df_calibracion,
                                 clase_precision)
                    IN Salida(p.st_error, out.exc, p.datos, "B", df_calibracion,
                              out.resultados)

\* lines 296-317
BotonCasoC ==
    /\ caso = "C"
    /\ IF EsVacio(texto)
       THEN Salida(<<MsgVacio>>, "none", <<>>, "none", DataFrame(<<>>), NoReport)
       ELSE LET p == ParseLoop(texto, <<>>, "valor_equipo", "valor_referencia")
            IN IF p.exc # "none"
               THEN Salida(p.st_error, p.exc, p.datos, "none", DataFrame(<<>>), NoReport)
               ELSE IF Len(p.datos) < MinPares
               THEN Salida(Append(p.st_error, MsgPocosPares), "none", p.datos, "none",
                           DataFrame(<<>>), NoReport)
               ELSE LET r == calibracion_por_comparacion(DataFrame(p.datos))
                    IN Salida(p.st_error, r.out.exc, p.datos, "C", r.df, r.out.resultados)

Init == UIInit /\ call = NoCall /\ prev = NoCall

Next ==
    \/ SeleccionarCaso
    \/ SeleccionarSensor
    \/ IngresarRango
    \/ SeleccionarClase
    \/ EscribirLinea
    \/ BotonCasoA
    \/ BotonCasoB
    \/ BotonCasoC

Spec == Init /\ [][Next]_vars

-----------------------------------------------------------------------------
(* Claims about the handlers, under Spec *)

Rendered == Len(resultados) = 1

LineaMalFormada(l) == l # <<>> /\ (Len(l) # 2 \/ ~l[1].num \/ ~l[2].num)

\* the run found the text empty or a line that is not two fields
ErrorDeEntrada == \E i \in 1..Len(st_error) : st_error[i] \in {MsgVacio, MsgFormato}

\* C1: in each of the three handlers, once an input error is detected (empty
\* text, or a non-blank line without exactly two fields) the computation function
\* is not invoked and no result is rendered, however many good lines came before.
C1_NoResultOnInputError ==
    (boton # "none" /\ ErrorDeEntrada) => (llamada = "none" /\ ~Rendered)

\* C3: the Caso A handler invokes calcular_tolerancia_metrologica with at least
\* 2 samples only; with fewer it reports an error and renders no report whose
\* standard deviation is NaN.
C3_CasoANeedsTwoSamples ==
    boton = "A" =>
        /\ llamada = "A" => Len(datos) >= 2
        /\ Len(datos) < 2 =>
              ((st_error # <<>> \/ excepcion # "none") /\ llamada = "none" /\ ~Rendered)
        /\ Rendered => IsNum(resultados[1].estricta)

\* C4: the Caso C handler invokes calibracion_por_comparacion only with at least
\* 10 parsed pairs; with fewer, also when parsing stopped at a malformed line, it
\* reports an input-validation error and renders no report.
C4_CasoCNeedsTenPairs ==
    boton = "C" =>
        /\ llamada = "C" => Len(datos) >= MinPares
        /\ Len(datos) < MinPares =>
              (st_error # <<>> /\ excepcion = "none" /\ llamada = "none" /\ ~Rendered)

\* C5: a non-blank line that is not exactly two numeric fields ends each handler
\* with the format error shown as a message; no exception escapes the handler.
C5_BadLineIsReported ==
    (boton # "none" /\ \E i \in 1..Len(texto) : LineaMalFormada(texto[i])) =>
        (excepcion = "none" /\ \E i \in 1..Len(st_error) : st_error[i] = MsgFormato)

\* C9: a call of a computation function leaves its arguments unchanged: after
\* the call the DataFrame passed holds exactly the columns and values it was
\* built with from `datos`.
C9_CallLeavesArgumentsUnchanged ==
    llamada # "none" => df = DataFrame(datos)

-----------------------------------------------------------------------------
(* Claims about the functions, under SpecCalc *)

Done(c) == c.out.st # "pending"
Returned(c) == c.out.st = "return"
ZeroSpan(c) == c.args.rango_calibrado[1] = c.args.rango_calibrado[2]
Constante(x) == \A i, j \in 1..Len(x) : x[i] = x[j]

\* C2: with rango_min = rango_max, calcular_tolerancia_metrologica and
\* calcular_tolerancia_transmision both end in an error and return no report
\* (so none with an infinite or NaN percentage).
C2_ZeroSpanRaises ==
    (call.fn \in {"A", "B"} /\ Done(call) /\ ZeroSpan(call)) =>
        (call.out.st = "raise" /\ call.out.exc # "none" /\ call.out.resultados = NoReport)

C2_Witness ==
    /\ call.fn = "A" /\ ZeroSpan(call)
    /\ Len(call.args.errores) >= 2
    /\ call.out.exc = "ZeroDivisionError"

\* the second call differs from the first in input f alone, which was raised
SoloSube(f) ==
    /\ call.args = [prev.args EXCEPT ![f] = call.args[f]]
    /\ IF f = "tolerancia_sensor_input"
       THEN /\ prev.args[f].some /\ call.args[f].some
            /\ prev.args[f].v < call.args[f].v
       ELSE prev.args[f] < call.args[f]

ValorPrevio(f) ==
    IF f = "tolerancia_sensor_input" THEN prev.args[f].v ELSE prev.args[f]

CuatroEntradas == ToleranceInputs \cup {"tolerancia_sensor_input"}

\* C6 as stated: over all values of the four component tolerances, negative
\* ones included, raising one of them never lowers the unrounded total.
C6_MonotoneOnAllInputs ==
    (prev.fn = "A" /\ call.fn = "A" /\ Returned(prev) /\ Returned(call)) =>
        \A f \in CuatroEntradas :
            SoloSube(f) =>
                call.out.locals.tolerancia_total >= prev.out.locals.tolerancia_total

\* C6 amended: raising one component tolerance that is not negative, the other
\* three at any value, never lowers the unrounded total.
C6_MonotoneFromNonNegative ==
    (prev.fn = "A" /\ call.fn = "A" /\ Returned(prev) /\ Returned(call)) =>
        \A f \in CuatroEntradas :
            (SoloSube(f) /\ ValorPrevio(f) >= 0) =>
                call.out.locals.tolerancia_total >= prev.out.locals.tolerancia_total

C6_Witness ==
    /\ prev.fn = "A" /\ call.fn = "A" /\ Returned(prev) /\ Returned(call)
    /\ SoloSube("tolerancia_pantalla") /\ ValorPrevio("tolerancia_pantalla") >= 0
    /\ prev.args.tolerancia_plc < 0
    /\ call.out.locals.tolerancia_total > prev.out.locals.tolerancia_total

ErroresC(c) == SeqMinus(c.args.df["valor_equipo"], c.args.df["valor_referencia"])

\* C7 as stated: n >= 2 samples all equal give a sample standard deviation of 0,
\* so Caso A's expanded uncertainty is 2 * incertidumbre_patron for every value
\* of it, and Caso C's transmission tolerance is 0.
C7_ConstantSamples ==
    /\ (call.fn = "A" /\ Returned(call) /\ Len(call.args.errores) >= 2
            /\ Constante(call.args.errores)) =>
        /\ call.out.locals.desviacion_estandar = Num(0)
        /\ call.out.locals.incertidumbre_expandida = Num(2 * call.args.incertidumbre_patron)
    /\ (call.fn = "C" /\ Returned(call) /\ Len(ErroresC(call)) >= 2
            /\ Constante(ErroresC(call))) =>
        /\ call.out.locals.desviacion_estandar = Num(0)
        /\ call.out.locals.tolerancia_transmision = Num(0)

\* C7 amended: as above, with Caso A's expanded uncertainty equal to
\* 2 * |incertidumbre_patron|, in the locals and in the report.
C7_ConstantSamplesAbs ==
    /\ (call.fn = "A" /\ Returned(call) /\ Len(call.args.errores) >= 2
            /\ Constante(call.args.errores)) =>
        /\ call.out.locals.desviacion_estandar = Num(0)
        /\ call.out.locals.incertidumbre_expandida
              = Num(2 * Abs(call.args.incertidumbre_patron))
        /\ call.out.resultados[1].estricta = Num(2 * Abs(call.args.incertidumbre_patron))
    /\ (call.fn = "C" /\ Returned(call) /\ Len(ErroresC(call)) >= 2
            /\ Constante(ErroresC(call))) =>
        /\ call.out.locals.desviacion_estandar = Num(0)
        /\ call.out.locals.tolerancia_transmision = Num(0)
        /\ call.out.resultados[1].desviacion_estandar = Num(0)
        /\ call.out.resultados[1].tolerancia_transmision = Num(0)

C7_Witness ==
    /\ call.fn = "A" /\ Returned(call)
    /\ Len(call.args.errores) >= 2 /\ Constante(call.args.errores)
    /\ call.args.errores[1] # 0
    /\ call.args.incertidumbre_patron < 0
    /\ call.out.resultados[1].estricta = Num(2000)

ClavesDeClase(c) ==
    DOMAIN Get(parametros_normativos, c.args.self.tipo_sensor,
               parametros_normativos["temperatura"]).clase_precision

CasoFallback(c) ==
    /\ c.fn = "B" /\ Done(c)
    /\ ~df_empty(c.args.datos_calibracion)
    /\ ~ZeroSpan(c)
    /\ c.args.clase_precision \notin ClavesDeClase(c)

\* C8: for a precision class that is no key of the kind's table, a non-empty
\* sample set and a nonzero span, calcular_tolerancia_transmision raises nothing
\* and uses 0.5: permitted error 0.5 % and (0.5/100) * (rango_max - rango_min)
\* units, the same report as for 'estandar'.
C8_UnknownClassFallsBack ==
    CasoFallback(call) =>
        /\ Returned(call)
        /\ call.out.locals.precision_base = 5000
        /\ call.out.resultados[1].permitido_porcentual = Num(5000)
        /\ call.out.resultados[1].permitido_unidades
              = Num(50 * (call.args.rango_calibrado[2] - call.args.rango_calibrado[1]))
        /\ (/\ prev.fn = "B" /\ Returned(prev)
            /\ prev.args = [call.args EXCEPT !.clase_precision = "estandar"]) =>
              call.out.resultados[1]
                = [prev.out.resultados[1] EXCEPT
                      !.clase_precision = call.args.clase_precision]

C8_Witness ==
    /\ CasoFallback(call) /\ Returned(call)
    /\ call.args.self.tipo_sensor = "caudal"
    /\ prev.fn = "B" /\ Returned(prev)
    /\ prev.args = [call.args EXCEPT !.clase_precision = "estandar"]

\* C10: two calls of calcular_tolerancia_transmision on the same sensor kind and
\* range (nonzero span), whatever their non-empty samples and precision classes,
\* report the same 'Tolerancia de transmision' and 'Porcentaje de tolerancia'.
C10_ToleranceIgnoresSamplesAndClass ==
    (/\ prev.fn = "B" /\ call.fn = "B"
     /\ prev.args.self = call.args.self
     /\ prev.args.rango_calibrado = call.args.rango_calibrado
     /\ ~ZeroSpan(call)
     /\ ~df_empty(prev.args.datos_calibracion)
     /\ ~df_empty(call.args.datos_calibracion)) =>
        /\ Returned(prev) /\ Returned(call)
        /\ call.out.resultados[1].tolerancia_transmision
              = prev.out.resultados[1].tolerancia_transmision
        /\ call.out.resultados[1].porcentaje_tolerancia
              = prev.out.resultados[1].porcentaje_tolerancia

C10_Witness ==
    /\ prev.fn = "B" /\ call.fn = "B" /\ Returned(prev) /\ Returned(call)
    /\ prev.args.datos_calibracion # call.args.datos_calibracion
    /\ prev.args.clase_precision = "alta" /\ call.args.clase_precision = "baja"
    /\ prev.out.resultados[1].desviacion_estandar
          # call.out.resultados[1].desviacion_estandar
    /\ call.out.resultados[1].porcentaje_tolerancia.v > 0

====
